---- MODULE Spec2Model ----
(***************************************************************************)
(* A model of the App Store ranking pipeline:                              *)
(*   get_app_store.py : fetch_app_info -> sort_apps_by_ranking ->          *)
(*                      save_to_json                                       *)
(*   json_to_db.py    : create_database -> import_json_to_db -> query_apps *)
(*                                                                         *)
(* Strings the code inspects character by character (the ranking link text *)
(* and the ranking field) are sequences of one-character strings.  A       *)
(* timestamp string is a record [day, fmt]: fmt = "iso" stands for the     *)
(* zero-padded text datetime.isoformat() writes ("2024-01-0dTHH:MM:SS"),   *)
(* fmt = "loose" for a hand-written text without zero padding              *)
(* ("2024-1-dTHH:MM:SS").  The id and created_at columns of the two tables *)
(* are not modelled: a table is the sequence of its rows in id order.      *)
(* Variables and fields marked "history" record what happened and are read *)
(* by no operation.                                                        *)
(***************************************************************************)
EXTENDS Integers, Sequences, FiniteSets, TLC

\* ------------------------------------------------------------- bounds
MaxUrls == 2
MaxDay == 2
MaxLoads == 3
MaxLimit == 2

VARIABLES
    now,          \* the wall clock's calendar day (Taiwan time)
    urls,         \* fetch_app_info's argument
    pc,           \* position of get_app_store.main
    i,            \* index in urls of fetch_app_info's for loop
    app_infos,    \* fetch_app_info's local list (its return value)
    met,          \* history: what each pass of the for loop met (an Outcome)
    fetched,      \* history: the list fetch_app_info returned
    sorted_apps,  \* main's sorted_apps
    files,        \* the snapshot files in DATA_DIR, oldest first
    db,           \* committed contents of the database: [apps, errors]
    pre,          \* history: db as it was before the last loader operation
    loaded,       \* history: what the last import_json_to_db call did
    loads,        \* number of import_json_to_db calls so far
    result        \* what the last query_apps call returned

vars == <<now, urls, pc, i, app_infos, met, fetched, sorted_apps, files, db, pre, loaded, loads, result>>
scrapeVars == <<now, urls, pc, i, app_infos, met, fetched, sorted_apps, files>>
loaderVars == <<db, pre, loaded, loads, result>>

\* ------------------------------------------------------- text helpers
Digits == {"0", "1", "2", "3", "4", "5", "6", "7", "8", "9"}

\* str.isdigit on one character
isdigit(c) == c \in Digits

DigitValue(c) ==
    CASE c = "0" -> 0 [] c = "1" -> 1 [] c = "2" -> 2 [] c = "3" -> 3
      [] c = "4" -> 4 [] c = "5" -> 5 [] c = "6" -> 6 [] c = "7" -> 7
      [] c = "8" -> 8 [] c = "9" -> 9

\* "".join(filter(str.isdigit, text))
FilterDigits(text) == SelectSeq(text, isdigit)

\* int(s) raises ValueError on an empty string or on a character that is no digit
IntRaises(s) == s = <<>> \/ \E k \in 1..Len(s) : ~isdigit(s[k])

RECURSIVE DecimalValue(_)
DecimalValue(s) ==
    IF s = <<>> THEN 0
    ELSE 10 * DecimalValue(SubSeq(s, 1, Len(s) - 1)) + DigitValue(s[Len(s)])

\* int(s), where it does not raise
int(s) == DecimalValue(s)

\* ------------------------------------------------ get_app_store.py
UNKNOWN == "unknown"                       \* the name sentinel
SENTINEL == <<"9", "9", "9", "9", "9", "9">>   \* the ranking sentinel "999999"

\* get_app_urls(): the configured listing pages, all different
get_app_urls == <<"u1", "u2", "u3", "u4">>

\* texts of the first a.inline-list__item ("#" is a character that is no
\* digit): empty, without a digit, a digit after other text, digits around
\* other text, and three whose digits reach or pass the sentinel's value
LinkTexts ==
    { <<>>,
      <<"#">>,
      <<"#", "5">>,
      <<"5", "#", "5">>,
      <<"1", "0", "0", "0", "0", "0", "0">>,
      <<"#", "9", "9", "9", "9", "9", "9">>,
      <<"0", "9", "9", "9", "9", "9", "9">> }

\* a parsed page: the texts of its h1.product-header__title elements and of
\* its a.inline-list__item elements, in document order (soup.find returns the
\* first one, or None when there is none)
Pages == [h1 : {<<>>, <<"App">>}, links : {<<>>} \cup {<<t>> : t \in LinkTexts}]

\* exceptions the try body can raise: requests.ConnectionError (from get) and
\* requests.HTTPError (from raise_for_status) are RequestExceptions, the
\* third is any other Exception
RequestExceptions == {"ConnectionError", "HTTPError"}
OtherExceptions == {"Exception"}

get_taiwan_time(day) == [day |-> day, fmt |-> "iso"]

\* None.get_text raises AttributeError, which the function catches
_get_app_name(soup) == IF soup.h1 = <<>> THEN UNKNOWN ELSE Head(soup.h1)

\* a found Tag is truthy whatever its text
_get_app_ranking(soup) ==
    IF soup.links # <<>> THEN FilterDigits(Head(soup.links)) ELSE SENTINEL

\* a mutant: the producer writes a version key
SuccessRecord_WithVersion(url, soup, day) ==
    [name |-> _get_app_name(soup), ranking |-> _get_app_ranking(soup),
     url |-> url, timestamp |-> get_taiwan_time(day), version |-> "1.0"]

\* the record appended by the try body
SuccessRecord(url, soup, day) ==
    [name |-> _get_app_name(soup), ranking |-> _get_app_ranking(soup),
     url |-> url, timestamp |-> get_taiwan_time(day)]

\* a mutant: the except clauses keep a ranking of "0"
ErrorRecord_ZeroRanking(url, e, day) ==
    [name |-> UNKNOWN, ranking |-> <<"0">>, url |-> url, error |-> e,
     timestamp |-> get_taiwan_time(day)]

\* the record appended by either except clause
ErrorRecord(url, e, day) ==
    [name |-> UNKNOWN, ranking |-> SENTINEL, url |-> url, error |-> e,
     timestamp |-> get_taiwan_time(day)]

\* a mutant: the second except clause (except Exception) is missing
Caught_RequestOnly(e) == e \in RequestExceptions

\* which exceptions the two except clauses catch
Caught(e) == e \in RequestExceptions \/ e \in OtherExceptions

HasError(app) == "error" \in DOMAIN app

\* what one pass of the for loop's body can meet: an exception raised inside
\* the try, or a page parsed from the response
Outcomes ==
    {[kind |-> "raise", exc |-> e] : e \in RequestExceptions \cup OtherExceptions}
        \cup {[kind |-> "page", soup |-> p] : p \in Pages}

\* one pass of the for loop: the records it appends and whether an exception
\* leaves fetch_app_info
fetch_iteration(url, o, day) ==
    IF o.kind = "page"
    THEN [records |-> <<SuccessRecord(url, o.soup, day)>>, propagates |-> FALSE]
    ELSE IF Caught(o.exc)
    THEN [records |-> <<ErrorRecord(url, o.exc, day)>>, propagates |-> FALSE]
    ELSE [records |-> <<>>, propagates |-> TRUE]

\* the sort key, lambda x: int(x['ranking'])
key(x) == int(x.ranking)

\* a mutant: an element goes before the elements of equal key
RECURSIVE InsertByKey_BeforeEqual(_, _)
InsertByKey_BeforeEqual(sortedSeq, x) ==
    IF sortedSeq = <<>> THEN <<x>>
    ELSE IF key(Head(sortedSeq)) < key(x)
    THEN <<Head(sortedSeq)>> \o InsertByKey_BeforeEqual(Tail(sortedSeq), x)
    ELSE <<x>> \o sortedSeq

\* sorted() is stable: an element goes after every element whose key is not
\* greater than its own
RECURSIVE InsertByKey(_, _)
InsertByKey(sortedSeq, x) ==
    IF sortedSeq = <<>> THEN <<x>>
    ELSE IF key(Head(sortedSeq)) <= key(x)
    THEN <<Head(sortedSeq)>> \o InsertByKey(Tail(sortedSeq), x)
    ELSE <<x>> \o sortedSeq

RECURSIVE sorted(_)
sorted(l) ==
    IF l = <<>> THEN <<>>
    ELSE InsertByKey(sorted(SubSeq(l, 1, Len(l) - 1)), l[Len(l)])

\* computing a key raises ValueError
SortRaises(l) == \E k \in 1..Len(l) : IntRaises(l[k].ranking)

sort_apps_by_ranking(l) == sorted(l)

\* the data dictionary save_to_json dumps
save_to_json(apps, day) == [timestamp |-> get_taiwan_time(day), apps |-> apps]

\* ------------------------------------------------------ json_to_db.py
NULL == [null |-> TRUE]

\* data['timestamp'].split('T')[0]: the text before the T, padded or not
DatePrefix(ts) == [d |-> ts.day, padded |-> ts.fmt = "iso"]

\* SQLite's date(timestamp): the padded date of a well-formed time string,
\* NULL for any other text
SqliteDate(ts) ==
    IF ts.fmt = "iso" THEN [d |-> ts.day, padded |-> TRUE] ELSE NULL

\* the two tables as create_database leaves them
EmptyDb == [apps |-> <<>>, errors |-> <<>>]

\* SELECT COUNT(*) FROM apps WHERE date = ?
CountApps(t, date) == Cardinality({k \in 1..Len(t.apps) : t.apps[k].date = date})

\* the DELETE statements, run only when the COUNT is positive; a NULL date
\* compares equal to nothing
DeleteSameDate(t, date) ==
    IF CountApps(t, date) > 0
    THEN [apps |-> SelectSeq(t.apps, LAMBDA row : row.date # date),
          errors |-> SelectSeq(t.errors,
                               LAMBDA row : SqliteDate(row.timestamp) # date)]
    ELSE t

\* building the INSERT's parameter tuple raises: KeyError for app['version'],
\* ValueError for int(app['ranking'])
InsertRaises(app) ==
    ~HasError(app) /\ ("version" \notin DOMAIN app \/ IntRaises(app.ranking))

\* the row of the errors table; inserted_by is history, not a column: the
\* batch date of the load that inserted the row
ErrorRow(app, date) ==
    [name |-> app.name, url |-> app.url, error_message |-> app.error,
     timestamp |-> app.timestamp, inserted_by |-> date]

AppRow(app, date) ==
    [name |-> app.name, version |-> app.version, ranking |-> int(app.ranking),
     url |-> app.url, date |-> date, timestamp |-> app.timestamp]

\* the body of the for loop over data['apps'], on the open transaction t
InsertRecord(t, app, date) ==
    IF HasError(app)
    THEN [t EXCEPT !.errors = Append(@, ErrorRow(app, date))]
    ELSE [t EXCEPT !.apps = Append(@, AppRow(app, date))]

\* the for loop from record k on: the transaction's tables when the loop ends
\* or raises, and the number of records inserted
RECURSIVE InsertFrom(_, _, _, _)
InsertFrom(t, apps, k, date) ==
    IF k > Len(apps) THEN [tx |-> t, raised |-> FALSE, inserted |-> k - 1]
    ELSE IF InsertRaises(apps[k]) THEN [tx |-> t, raised |-> TRUE, inserted |-> k - 1]
    ELSE InsertFrom(InsertRecord(t, apps[k], date), apps, k + 1, date)

\* a mutant: the connection is in autocommit mode, every statement persists
ConnectionEnd_Autocommit(committed, tx, raised) == tx

\* how the connection ends: conn.commit() is reached only when nothing was
\* raised; a connection dropped with an open transaction rolls it back
ConnectionEnd(committed, tx, raised) == IF raised THEN committed ELSE tx

\* import_json_to_db on the committed tables: what is committed afterwards,
\* whether it raised, whether it ran the DELETEs, how many records it inserted
import_json_to_db(committed, data) ==
    LET date == DatePrefix(data.timestamp)
        t0 == DeleteSameDate(committed, date)
        r == InsertFrom(t0, data.apps, 1, date)
    IN [committed |-> ConnectionEnd(committed, r.tx, r.raised),
        raised |-> r.raised,
        overwrote |-> CountApps(committed, date) > 0,
        inserted |-> r.inserted]

RemoveAt(s, k) == SubSeq(s, 1, k - 1) \o SubSeq(s, k + 1, Len(s))

\* ORDER BY ranking ASC LIMIT n: every result SQLite may return.  Rows of
\* equal ranking come in an order SQL leaves open; a negative n is no limit.
RECURSIVE OrderByRankingLimit(_, _)
OrderByRankingLimit(rows, n) ==
    IF n = 0 \/ rows = <<>> THEN {<<>>}
    ELSE LET least == {k \in 1..Len(rows) :
                          \A j \in 1..Len(rows) : rows[k].ranking <= rows[j].ranking}
         IN UNION {{<<rows[k]>> \o rest :
                       rest \in OrderByRankingLimit(RemoveAt(rows, k), n - 1)} :
                   k \in least}

Min(a, b) == IF a <= b THEN a ELSE b

\* a mutant: the query has no ORDER BY and returns the first rows by id
query_apps_NoOrderBy(t, limit) == {SubSeq(t.apps, 1, Min(limit, Len(t.apps)))}

\* the results query_apps(db_path, limit) may return
query_apps(t, limit) == OrderByRankingLimit(t.apps, limit)

\* ------------------------------------------------- snapshot files written
\* by hand or by another producer, for the loader run on an explicit path
LoadDays == {1, 2}

IsoTs(day) == [day |-> day, fmt |-> "iso"]
LooseTs(day) == [day |-> day, fmt |-> "loose"]

\* a record of an app, with or without the version key
AppRecord(name, ranking, url, ts) ==
    [name |-> name, ranking |-> ranking, url |-> url, timestamp |-> ts,
     version |-> "1.0"]

AppRecordNoVersion(name, ranking, url, ts) ==
    [name |-> name, ranking |-> ranking, url |-> url, timestamp |-> ts]

\* the other day
Other(d) == IF d = 1 THEN 2 ELSE 1

\* the apps lists of the snapshot files of batch day d: empty, the apps A
\* (ranking 5) and B (ranking 1) together and alone, apps with error records
\* stamped on the batch day or on the other day, error records alone, a
\* record without a version key (first, and after a record that inserts), a
\* record whose ranking int() cannot parse, and a loosely stamped error record
AppsLists(d) ==
    LET A == AppRecord("A", <<"5">>, "u1", IsoTs(d))
        B == AppRecord("B", <<"1">>, "u2", IsoTs(d))
        E(ts) == [name |-> UNKNOWN, ranking |-> SENTINEL, url |-> "u3",
                  error |-> "Exception", timestamp |-> ts]
    IN { <<>>,
         <<A, B>>,
         <<A>>,
         <<B>>,
         <<B, E(IsoTs(d))>>,
         <<E(IsoTs(d))>>,
         <<E(IsoTs(Other(d)))>>,
         <<E(IsoTs(d)), E(IsoTs(Other(d)))>>,
         <<A, E(IsoTs(Other(d)))>>,
         <<AppRecordNoVersion("A", <<"5">>, "u1", IsoTs(d))>>,
         <<A, AppRecordNoVersion("B", <<"1">>, "u2", IsoTs(d))>>,
         <<E(IsoTs(d)),
           AppRecord("B", <<"#">>, "u2", IsoTs(d))>>,
         <<E(LooseTs(d)), B>> }

Snapshots ==
    UNION {{[timestamp |-> IsoTs(d), apps |-> l] : l \in AppsLists(d)} :
              d \in LoadDays}

\* ------------------------------------------------------------ history
NoLoad ==
    [called |-> FALSE, data |-> [timestamp |-> IsoTs(0), apps |-> <<>>],
     raised |-> FALSE, overwrote |-> FALSE, inserted |-> 0, again |-> FALSE]

NoResult == [queried |-> FALSE, limit |-> 0, rows |-> <<>>, before |-> EmptyDb]

\* ------------------------------------------------------------ actions
\* one pass of fetch_app_info's for loop
FetchUrl ==
    /\ pc = "fetch"
    /\ i <= Len(urls)
    /\ \E o \in Outcomes :
         LET r == fetch_iteration(urls[i], o, now)
         IN /\ app_infos' = app_infos \o r.records
            /\ met' = Append(met, o)
            /\ IF r.propagates
               THEN pc' = "crashed" /\ i' = i
               ELSE pc' = pc /\ i' = i + 1
    /\ UNCHANGED <<now, urls, fetched, sorted_apps, files, loaderVars>>

\* the loop is over: return app_infos
FetchReturn ==
    /\ pc = "fetch"
    /\ i > Len(urls)
    /\ pc' = "sort"
    /\ fetched' = app_infos
    /\ UNCHANGED <<now, urls, i, app_infos, met, sorted_apps, files, loaderVars>>

\* sorted_apps = sort_apps_by_ranking(app_info_list)
Sort ==
    /\ pc = "sort"
    /\ IF SortRaises(app_infos)
       THEN pc' = "crashed" /\ UNCHANGED sorted_apps
       ELSE pc' = "save" /\ sorted_apps' = sort_apps_by_ranking(app_infos)
    /\ UNCHANGED <<now, urls, i, app_infos, met, fetched, files, loaderVars>>

\* save_to_json(sorted_apps)
Save ==
    /\ pc = "save"
    /\ files' = Append(files, save_to_json(sorted_apps, now))
    /\ pc' = "done"
    /\ UNCHANGED <<now, urls, i, app_infos, met, fetched, sorted_apps, loaderVars>>

\* midnight passes while the scrape runs
Tick ==
    /\ pc \in {"fetch", "sort", "save"}
    /\ now < MaxDay
    /\ now' = now + 1
    /\ UNCHANGED <<urls, pc, i, app_infos, met, fetched, sorted_apps, files, loaderVars>>

\* import_json_to_db(json_file_path, db_path) on the file's content, in a
\* process of its own (no query result of an earlier process is held)
Import(data) ==
    /\ loads < MaxLoads
    /\ ~result.queried
    /\ LET r == import_json_to_db(db, data)
       IN /\ db' = r.committed
          /\ loaded' = [called |-> TRUE, data |-> data, raised |-> r.raised,
                        overwrote |-> r.overwrote, inserted |-> r.inserted,
                        again |-> loaded.called /\ ~loaded.raised
                                      /\ loaded.data = data]
    /\ pre' = db
    /\ loads' = loads + 1
    /\ result' = NoResult
    /\ UNCHANGED scrapeVars

\* json_to_db.main without an argument: the latest file of DATA_DIR
LoadLatest ==
    /\ files # <<>>
    /\ Import(files[Len(files)])

\* json_to_db.main with a path argument
LoadFile == \E data \in Snapshots : Import(data)

\* query_apps(db_path, limit); json_to_db.main reaches it after an import
\* that did not raise
QueryApps ==
    /\ ~result.queried
    /\ loaded.called
    /\ ~loaded.raised
    /\ \E limit \in 0..MaxLimit :
         \E rows \in query_apps(db, limit) :
            result' = [queried |-> TRUE, limit |-> limit, rows |-> rows,
                       before |-> db]
    /\ UNCHANGED <<db, pre, loaded, loads, scrapeVars>>

\* the caller is done with the rows (json_to_db.main prints them and returns)
Return ==
    /\ result.queried
    /\ result' = NoResult
    /\ UNCHANGED <<db, pre, loaded, loads, scrapeVars>>

\* ------------------------------------------------------ specifications
\* the scrape pipeline run on a list of URLs, then the loader on its file
Init ==
    /\ now = 1
    /\ urls \in {SubSeq(get_app_urls, 1, n) : n \in 0..MaxUrls}
    /\ pc = "fetch"
    /\ i = 1
    /\ app_infos = <<>>
    /\ met = <<>>
    /\ fetched = <<>>
    /\ sorted_apps = <<>>
    /\ files = <<>>
    /\ db = EmptyDb
    /\ pre = EmptyDb
    /\ loaded = NoLoad
    /\ loads = 0
    /\ result = NoResult

Next ==
    FetchUrl \/ FetchReturn \/ Sort \/ Save \/ Tick \/ LoadLatest \/ QueryApps \/ Return

Spec == Init /\ [][Next]_vars

\* the loader and the query on a database that create_database just made,
\* fed snapshot files by path
LoaderInit ==
    /\ now = 1
    /\ urls = <<>>
    /\ pc = "off"
    /\ i = 1
    /\ app_infos = <<>>
    /\ met = <<>>
    /\ fetched = <<>>
    /\ sorted_apps = <<>>
    /\ files = <<>>
    /\ db = EmptyDb
    /\ pre = EmptyDb
    /\ loaded = NoLoad
    /\ loads = 0
    /\ result = NoResult

LoaderNext == LoadFile \/ QueryApps \/ Return

LoaderSpec == LoaderInit /\ [][LoaderNext]_vars

\* ------------------------------------------------------------- claims
Injective(f) == \A a, b \in DOMAIN f : f[a] = f[b] => a = b

\* C1: fetch_app_info returns exactly one record per input URL, the k-th
\* record carrying the k-th URL, whatever each URL met; no exception leaves
\* fetch_app_info (the only crash of main is in the sort, after the loop), and
\* a failure on one URL does not stop the loop.
C1_OneRecordPerUrl ==
    /\ pc = "crashed" => i > Len(urls)
    /\ pc = "fetch" =>
          /\ Len(app_infos) = i - 1
          /\ \A k \in 1..Len(app_infos) : app_infos[k].url = urls[k]
    /\ pc \in {"sort", "save", "done", "crashed"} =>
          /\ Len(fetched) = Len(urls)
          /\ \A k \in 1..Len(urls) : fetched[k].url = urls[k]

\* a list of two URLs whose first raised a non-request exception and whose
\* second was fetched
C1_Witness ==
    /\ pc = "sort"
    /\ Len(urls) = 2
    /\ HasError(fetched[1]) /\ fetched[1].error = "Exception"
    /\ ~HasError(fetched[2])

\* C5: for every parsed page the extracted ranking is a non-empty digits-only
\* string (so int() parses it): the digits of the link's text when the link
\* exists and its text holds a digit, the sentinel when the link is absent or
\* its text holds no digit.
C5_RankingDigitsOrSentinel ==
    \A k \in 1..Len(app_infos) :
        met[k].kind = "page" =>
            LET soup == met[k].soup
                ranking == app_infos[k].ranking
                digits == IF soup.links = <<>> THEN <<>>
                          ELSE FilterDigits(Head(soup.links))
            IN /\ ranking # <<>>
               /\ \A c \in 1..Len(ranking) : isdigit(ranking[c])
               /\ ~IntRaises(ranking)
               /\ ranking = IF digits = <<>> THEN SENTINEL ELSE digits

\* out is inp sorted ascending by key, records of equal key in inp's order
IsStableSortOf(out, inp) ==
    /\ Len(out) = Len(inp)
    /\ \E p \in [1..Len(inp) -> 1..Len(inp)] :
          /\ Injective(p)
          /\ \A k \in 1..Len(out) : out[k] = inp[p[k]]
          /\ \A j, k \in 1..Len(out) :
                j < k => /\ key(out[j]) <= key(out[k])
                         /\ key(out[j]) = key(out[k]) => p[j] < p[k]

\* C6: where sort_apps_by_ranking returns, its result is a permutation of its
\* input, ascending by int(ranking), records of equal ranking in input order,
\* and the input list is as fetch_app_info returned it.
C6_SortStablePermutation ==
    pc \in {"save", "done"} =>
        /\ app_infos = fetched
        /\ IsStableSortOf(sorted_apps, fetched)

\* two different records of equal integer ranking were sorted
C6_Witness ==
    /\ pc = "save"
    /\ Len(fetched) = 2
    /\ fetched[1] # fetched[2]
    /\ key(fetched[1]) = key(fetched[2])

\* C7: in the sorted output every record with an error field comes after
\* every record without one whose ranking is not the sentinel.
C7_FailedSortLast ==
    pc \in {"save", "done"} =>
        \A a, b \in 1..Len(sorted_apps) :
            (/\ HasError(sorted_apps[a])
             /\ ~HasError(sorted_apps[b])
             /\ sorted_apps[b].ranking # SENTINEL) => b < a

\* C8: a record has an error field exactly when its pass of the loop raised,
\* and then its ranking is "999999" and its name the unknown sentinel.
C8_ErrorRecordShape ==
    \A k \in 1..Len(app_infos) :
        /\ HasError(app_infos[k]) <=> met[k].kind = "raise"
        /\ HasError(app_infos[k]) =>
              /\ app_infos[k].ranking = SENTINEL
              /\ app_infos[k].name = UNKNOWN

\* fetch_app_info returned an error record and a record of a fetched page
C8_Witness ==
    /\ pc = "sort"
    /\ \E k \in 1..Len(fetched) : HasError(fetched[k])
    /\ \E k \in 1..Len(fetched) : ~HasError(fetched[k]) /\ met[k].kind = "page"

\* C10: no scraped record has a version key, and a load of a snapshot the
\* scrape pipeline wrote raises, before any commit, exactly when the snapshot
\* holds a record without an error field.
C10_ScrapedSnapshotNeedsAllErrors ==
    /\ \A k \in 1..Len(app_infos) : "version" \notin DOMAIN app_infos[k]
    /\ \A f \in 1..Len(files) :
          \A k \in 1..Len(files[f].apps) : "version" \notin DOMAIN files[f].apps[k]
    /\ loaded.called =>
          /\ loaded.raised <=>
                \E k \in 1..Len(loaded.data.apps) : ~HasError(loaded.data.apps[k])
          /\ loaded.raised => db = pre

\* a scraped snapshot of an error record and a fetched app made the load raise
C10_Witness ==
    /\ loaded.called
    /\ loaded.raised
    /\ \E k \in 1..Len(loaded.data.apps) : HasError(loaded.data.apps[k])
    /\ \E k \in 1..Len(loaded.data.apps) : ~HasError(loaded.data.apps[k])

AppsOfDate(t, date) == SelectSeq(t.apps, LAMBDA row : row.date = date)
AppsNotOfDate(t, date) == SelectSeq(t.apps, LAMBDA row : row.date # date)
ErrorsOfBatch(t, date) == SelectSeq(t.errors, LAMBDA row : row.inserted_by = date)
ErrorsNotOfBatch(t, date) == SelectSeq(t.errors, LAMBDA row : row.inserted_by # date)

\* C2: a second load of the snapshot that was just loaded leaves the apps rows
\* and the errors rows of the snapshot's batch date as the first load left
\* them.
C2_IdempotentLoad ==
    (loaded.again /\ ~loaded.raised) =>
        LET date == DatePrefix(loaded.data.timestamp)
        IN /\ AppsOfDate(db, date) = AppsOfDate(pre, date)
           /\ ErrorsOfBatch(db, date) = ErrorsOfBatch(pre, date)

\* C3: a load that raised left the committed tables as they were before it.
C3_FailedLoadChangesNothing ==
    (loaded.called /\ loaded.raised) => db = pre

\* a load ran the DELETEs, inserted a record and then raised
C3_Witness ==
    /\ loaded.called
    /\ loaded.raised
    /\ loaded.overwrote
    /\ loaded.inserted >= 1

\* C4: a load of batch date D2 leaves in place every apps row of another date
\* and every errors row inserted by a load of another batch date.
C4_OtherDatesUndisturbed ==
    (loaded.called /\ ~loaded.raised) =>
        LET date == DatePrefix(loaded.data.timestamp)
        IN /\ AppsNotOfDate(db, date) = AppsNotOfDate(pre, date)
           /\ ErrorsNotOfBatch(db, date) = ErrorsNotOfBatch(pre, date)

\* C9: query_apps(db, N) returns min(N, number of apps rows) rows of the apps
\* table, in non-decreasing ranking, no row left out ranking below a returned
\* one, and leaves the tables as they were.
C9_QueryTopN ==
    result.queried =>
        LET rows == result.rows
            table == db.apps
        IN /\ db = result.before
           /\ Len(rows) = Min(result.limit, Len(table))
           /\ \A j, k \in 1..Len(rows) : j < k => rows[j].ranking <= rows[k].ranking
           /\ \E f \in [1..Len(rows) -> 1..Len(table)] :
                 /\ Injective(f)
                 /\ \A k \in 1..Len(rows) : rows[k] = table[f[k]]
                 /\ \A j \in 1..Len(table) :
                       (\A k \in 1..Len(rows) : f[k] # j) =>
                           \A k \in 1..Len(rows) : rows[k].ranking <= table[j].ranking

\* ranking 5 was stored before ranking 1 and the top-2 query put 1 before 5
C9_Witness ==
    /\ result.queried
    /\ result.limit = 2
    /\ Len(db.apps) = 2
    /\ db.apps[1].ranking = 5 /\ db.apps[2].ranking = 1
    /\ Len(result.rows) = 2
    /\ result.rows[1].ranking = 1 /\ result.rows[2].ranking = 5

====
